---------------------------- MODULE Spec2Model ----------------------------
(***************************************************************************)
(* A model of the redis-rs server: the RESP codec of src/src/resp.rs, the  *)
(* per-connection loop `process` and the store task `run_database` of      *)
(* src/src/main.rs.                                                        *)
(*                                                                         *)
(* Bytes are modelled as one-character strings ("CR" and "LF" stand for    *)
(* \r and \n, "xFF" for a byte that is not valid UTF-8).  A byte sequence  *)
(* is a TLA+ sequence of such bytes.                                       *)
(***************************************************************************)
EXTENDS Integers, Sequences, FiniteSets, TLC

(***************************************************************************)
(* Bounds of the model.                                                    *)
(***************************************************************************)
\* requests the connections read in total before the model stops feeding them
MaxReqs == 3
\* largest reading of the monotonic clock
MaxClock == 1
\* longest raw byte string handed to the decoder
MaxRawLen == 2
\* longest Array among the messages encoded
MaxArrayLen == 2

CR == "CR"
LF == "LF"
CRLF == <<CR, LF>>

(***************************************************************************)
(* RespValue (resp.rs 5-12).                                               *)
(***************************************************************************)
SimpleString(s) == [t |-> "SimpleString", s |-> s]
Error(s) == [t |-> "Error", s |-> s]
Integer(n) == [t |-> "Integer", n |-> n]
BulkString(b) == [t |-> "BulkString", some |-> TRUE, b |-> b]
NullBulk == [t |-> "BulkString", some |-> FALSE, b |-> <<>>]
Array(a) == [t |-> "Array", a |-> a]

(***************************************************************************)
(* Decimal text of integers: i.to_string(), str::parse::<i64>(),           *)
(* str::parse::<usize>() / parse::<u64>().                                 *)
(***************************************************************************)
Digits == <<"0", "1", "2", "3", "4", "5", "6", "7", "8", "9">>

IsDigit(b) == \E i \in 1..10 : Digits[i] = b

DigitVal(b) == (CHOOSE i \in 1..10 : Digits[i] = b) - 1

RECURSIVE NatToString(_)
NatToString(n) ==
    IF n < 10 THEN <<Digits[n + 1]>>
    ELSE NatToString(n \div 10) \o <<Digits[(n % 10) + 1]>>

IntToString(i) == IF i < 0 THEN <<"-">> \o NatToString(-i) ELSE NatToString(i)

AllDigits(s) == \A i \in 1..Len(s) : IsDigit(s[i])

RECURSIVE DigitsValue(_)
DigitsValue(s) ==
    IF s = <<>> THEN 0
    ELSE 10 * DigitsValue(SubSeq(s, 1, Len(s) - 1)) + DigitVal(s[Len(s)])

SomeInt(n) == [ok |-> TRUE, n |-> n]
NoInt == [ok |-> FALSE, n |-> 0]

\* str::parse::<i64>(): an optional sign, then at least one digit.  The
\* numbers of the model have a few digits, far from the overflow of an i64.
ParseI64(s) ==
    IF s = <<>> THEN NoInt
    ELSE IF s[1] \in {"+", "-"}
         THEN IF Len(s) > 1 /\ AllDigits(Tail(s))
              THEN SomeInt(IF s[1] = "-" THEN -DigitsValue(Tail(s))
                                         ELSE DigitsValue(Tail(s)))
              ELSE NoInt
         ELSE IF AllDigits(s) THEN SomeInt(DigitsValue(s)) ELSE NoInt

\* str::parse::<usize>() and parse::<u64>(): an optional "+", then at least
\* one digit; a "-" is an invalid digit for an unsigned type.
ParseUnsigned(s) ==
    IF s = <<>> THEN NoInt
    ELSE IF s[1] = "+"
         THEN IF Len(s) > 1 /\ AllDigits(Tail(s))
              THEN SomeInt(DigitsValue(Tail(s)))
              ELSE NoInt
         ELSE IF AllDigits(s) THEN SomeInt(DigitsValue(s)) ELSE NoInt

\* String::from_utf8 succeeds: every byte of the model but "xFF" is ASCII.
Utf8Ok(s) == \A i \in 1..Len(s) : s[i] # "xFF"

(***************************************************************************)
(* encode: impl From<RespValue> for Bytes (resp.rs 22-62).                 *)
(***************************************************************************)
RECURSIVE Encode(_)
RECURSIVE EncodeItems(_)
EncodeItems(arr) ==
    IF arr = <<>> THEN <<>> ELSE Encode(Head(arr)) \o EncodeItems(Tail(arr))

Encode(value) ==
    CASE value.t = "SimpleString" -> <<"+">> \o value.s \o CRLF
      [] value.t = "Error" -> <<"-">> \o value.s \o CRLF
      [] value.t = "Integer" -> <<":">> \o IntToString(value.n) \o CRLF
      [] value.t = "BulkString" /\ value.some ->
            <<"$">> \o IntToString(Len(value.b)) \o CRLF \o value.b \o CRLF
      [] value.t = "BulkString" /\ ~value.some -> <<"$", "-", "1", CR, LF>>
      [] value.t = "Array" ->
            <<"*">> \o IntToString(Len(value.a)) \o CRLF \o EncodeItems(value.a)

(***************************************************************************)
(* decode: impl TryFrom<Bytes> for RespValue (resp.rs 64-148).  The result *)
(* is Ok(value), Err(RespError::Parse(text)), or a panic: Bytes::split_to  *)
(* and Bytes::advance panic when asked for more bytes than remain, and     *)
(* `bytes.len() - 2` underflows on fewer than two bytes (a panic in a      *)
(* debug build, a huge split_to that panics in a release build).           *)
(***************************************************************************)
Ok(v) == [tag |-> "Ok", v |-> v, e |-> ""]
Err(e) == [tag |-> "Err", v |-> NullBulk, e |-> e]
Panic == [tag |-> "Panic", v |-> NullBulk, e |-> ""]

\* bytes.iter().position(|&b| b == b'\r'): the 0-based index, or -1 for None
PositionCR(bytes) ==
    IF \E i \in 1..Len(bytes) : bytes[i] = CR
    THEN (CHOOSE i \in 1..Len(bytes) :
              bytes[i] = CR /\ \A j \in 1..(i - 1) : bytes[j] # CR) - 1
    ELSE -1

\* what is left of `bytes` after advance(n) or split_to(n), n <= len
Advance(bytes, n) == SubSeq(bytes, n + 1, Len(bytes))

\* the text arms '+', '-' and ':' (resp.rs 73-92): all but the last two bytes
TextBody(rest) == SubSeq(rest, 1, Len(rest) - 2)

DecodeBulkString(rest) ==
    LET len_end == PositionCR(rest) IN
    IF len_end = -1 THEN Err("Invalid bulk string format")
    ELSE LET head == SubSeq(rest, 1, len_end)
             after == Advance(rest, len_end)
             len == ParseI64(head)
         IN  IF ~Utf8Ok(head) THEN Err("invalid utf-8")
             ELSE IF ~len.ok THEN Err("invalid digit")
             ELSE IF Len(after) < 2 THEN Panic
             ELSE LET body == Advance(after, 2) IN
                  IF len.n = -1 THEN Ok(NullBulk)
                  \* `len as usize` of a negative length is huge
                  ELSE IF len.n < 0 \/ len.n > Len(body) THEN Panic
                  ELSE IF Len(body) - len.n < 2 THEN Panic
                  ELSE Ok(BulkString(SubSeq(body, 1, len.n)))

RECURSIVE Decode(_)
RECURSIVE DecodeItems(_, _, _)
\* the loop of resp.rs 129-141: `n` elements still to decode from `bytes`;
\* each element is decoded from all the bytes that remain, and the cursor
\* then moves by the length of the element's re-encoding.  (The counts of
\* the model are small: Vec::with_capacity(len) never fails.)
DecodeItems(bytes, n, array) ==
    IF n = 0 THEN Ok(Array(array))
    ELSE LET item == Decode(bytes) IN
         IF item.tag # "Ok" THEN item
         ELSE LET used == Len(Encode(item.v)) IN
              IF used > Len(bytes) THEN Panic
              ELSE DecodeItems(Advance(bytes, used), n - 1, Append(array, item.v))

Decode(bytes) ==
    IF bytes = <<>> THEN Err("Empty input")
    ELSE LET rest == Tail(bytes) IN
      CASE bytes[1] = "+" ->
             IF Len(rest) < 2 THEN Panic
             ELSE IF ~Utf8Ok(TextBody(rest)) THEN Err("invalid utf-8")
             ELSE Ok(SimpleString(TextBody(rest)))
        [] bytes[1] = "-" ->
             IF Len(rest) < 2 THEN Panic
             ELSE IF ~Utf8Ok(TextBody(rest)) THEN Err("invalid utf-8")
             ELSE Ok(Error(TextBody(rest)))
        [] bytes[1] = ":" ->
             IF Len(rest) < 2 THEN Panic
             ELSE IF ~Utf8Ok(TextBody(rest)) THEN Err("invalid utf-8")
             ELSE IF ~ParseI64(TextBody(rest)).ok THEN Err("invalid digit")
             ELSE Ok(Integer(ParseI64(TextBody(rest)).n))
        [] bytes[1] = "$" -> DecodeBulkString(rest)
        [] bytes[1] = "*" ->
             LET len_end == PositionCR(rest) IN
             IF len_end = -1 THEN Err("Invalid array format")
             ELSE LET head == SubSeq(rest, 1, len_end)
                      after == Advance(rest, len_end)
                      len == ParseUnsigned(head)
                  IN  IF ~Utf8Ok(head) THEN Err("invalid utf-8")
                      ELSE IF ~len.ok THEN Err("invalid digit")
                      ELSE IF Len(after) < 2 THEN Panic
                      ELSE DecodeItems(Advance(after, 2), len.n, <<>>)
        [] OTHER -> Err("Invalid RESP data type")


(***************************************************************************)
(* The state of the server.                                                *)
(***************************************************************************)
VARIABLES
    clock,      \* the monotonic clock read by Instant::now()
    pc,         \* per connection: where its task `process` stands
    nreq,       \* per connection: how many reads returned bytes so far
    req,        \* per connection: the DbOperation it is sending or awaiting
    inp,        \* per connection: the chunks its reads returned
    out,        \* per connection: the byte strings written to its socket
    cause,      \* per connection: why its loop ended
    chan,       \* the async_channel of DbOperations (unbounded, FIFO)
    oneshot,    \* per connection: the oneshot channel of its operation
    db,         \* the HashMap owned by run_database
    hist,       \* history: one entry per store operation a connection issued
    cur,        \* history: per connection, the entry of its operation
    lastSet,    \* history: per key, the entry of the last Set applied
    cmsg,       \* codec harness: the RespValue encoded
    cbuf,       \* codec harness: the bytes handed to the decoder
    cres,       \* codec harness: what the decoder returned
    cphase      \* codec harness: "msg", "bytes" or "decoded"

serverVars == <<clock, pc, nreq, req, inp, out, cause, chan, oneshot, db,
                hist, cur, lastSet>>
codecVars == <<cmsg, cbuf, cres, cphase>>
vars == <<clock, pc, nreq, req, inp, out, cause, chan, oneshot, db,
          hist, cur, lastSet, cmsg, cbuf, cres, cphase>>

Conns == {"c1", "c2"}

\* Option<Instant>
NoExpiry == [some |-> FALSE, at |-> 0]
ExpiresAt(t) == [some |-> TRUE, at |-> t]

(***************************************************************************)
(* DbOperation (main.rs 15-18).  `sender` names the connection that holds  *)
(* the receiving end of the operation's oneshot channel.                   *)
(***************************************************************************)
DbGet(key, sender) ==
    [op |-> "Get", key |-> key, value |-> <<>>, expiry |-> NoExpiry,
     sender |-> sender]
DbSet(key, value, expiry, sender) ==
    [op |-> "Set", key |-> key, value |-> value, expiry |-> expiry,
     sender |-> sender]
NoOperation ==
    [op |-> "None", key |-> <<>>, value |-> <<>>, expiry |-> NoExpiry,
     sender |-> ""]

(***************************************************************************)
(* The command dispatch of `process` (main.rs 62-200), as a function of    *)
(* the decoder's result and of the clock reading a SET with PX takes.      *)
(* It yields either the reply to write, or the DbOperation to send.        *)
(***************************************************************************)
\* u8::to_ascii_lowercase on the letters the model's requests use
Lower(b) ==
    CASE b = "G" -> "g" [] b = "E" -> "e" [] b = "T" -> "t" [] b = "S" -> "s"
      [] b = "P" -> "p" [] b = "I" -> "i" [] b = "N" -> "n" [] b = "C" -> "c"
      [] b = "H" -> "h" [] b = "O" -> "o" [] b = "X" -> "x" [] b = "F" -> "f"
      [] OTHER -> b

\* mutant: the verb is compared as it was sent
AsciiAsSent(s) == s

ToAsciiLowercase(s) == [i \in 1..Len(s) |-> Lower(s[i])]

\* String::from_utf8_lossy: an invalid byte becomes U+FFFD
FromUtf8Lossy(s) == [i \in 1..Len(s) |-> IF s[i] = "xFF" THEN "uFFFD" ELSE s[i]]

\* values.get(i) is Some(RespValue::BulkString(Some(_)))
IsBulkAt(values, i) ==
    /\ i + 1 <= Len(values)
    /\ values[i + 1].t = "BulkString"
    /\ values[i + 1].some

\* values.get(i) is None
IsNoneAt(values, i) == i + 1 > Len(values)

\* the outcome of the dispatch; `px` keeps, beside the operation, whether the
\* request carried PX and what its milliseconds parsed to
NoPx == [given |-> FALSE, ok |-> FALSE, n |-> 0]
GivenPx(ms) == [given |-> TRUE, ok |-> ms.ok, n |-> ms.n]
ToReply(m) == [kind |-> "reply", reply |-> m, op |-> NoOperation, px |-> NoPx]
ToStore(op, px) == [kind |-> "store", reply |-> NullBulk, op |-> op, px |-> px]

\* the "set" arm (main.rs 120-176)
DispatchSet(values, sender, now) ==
    IF /\ IsBulkAt(values, 1) /\ IsBulkAt(values, 2)
       /\ IsBulkAt(values, 3) /\ IsBulkAt(values, 4)
       /\ ToAsciiLowercase(values[4].b) = <<"p", "x">>
    THEN LET ms == ParseUnsigned(FromUtf8Lossy(values[5].b))
             expiry == IF ms.ok THEN ExpiresAt(now + ms.n) ELSE NoExpiry
         IN  ToStore(DbSet(FromUtf8Lossy(values[2].b), values[3].b, expiry,
                           sender), GivenPx(ms))
    ELSE IF /\ IsBulkAt(values, 1) /\ IsBulkAt(values, 2)
            /\ IsNoneAt(values, 3) /\ IsNoneAt(values, 4)
    THEN ToStore(DbSet(FromUtf8Lossy(values[2].b), values[3].b, NoExpiry,
                       sender), NoPx)
    ELSE ToReply(Error(<<"Invalid SET command format">>))

Dispatch(result, sender, now) ==
    IF result.tag = "Err"
    THEN ToReply(Error(<<"Parse error: Parse error: ", result.e>>))
    ELSE IF result.v.t # "Array"
    THEN ToReply(Error(<<"Invalid request format">>))
    ELSE LET values == result.v.a IN
         IF ~IsBulkAt(values, 0)
         THEN ToReply(Error(<<"Invalid command format">>))
         ELSE LET command_str == ToAsciiLowercase(FromUtf8Lossy(values[1].b)) IN
           CASE command_str = <<"p", "i", "n", "g">> ->
                  IF IsBulkAt(values, 1)
                  THEN ToReply(BulkString(values[2].b))
                  ELSE ToReply(SimpleString(<<"P", "O", "N", "G">>))
             [] command_str = <<"e", "c", "h", "o">> ->
                  IF IsBulkAt(values, 1)
                  THEN ToReply(BulkString(values[2].b))
                  ELSE ToReply(Error(<<"Invalid ECHO command format">>))
             [] command_str = <<"g", "e", "t">> ->
                  IF IsBulkAt(values, 1)
                  THEN ToStore(DbGet(FromUtf8Lossy(values[2].b), sender), NoPx)
                  ELSE ToReply(Error(<<"Invalid GET command format">>))
             [] command_str = <<"s", "e", "t">> ->
                  DispatchSet(values, sender, now)
             [] OTHER -> ToReply(Error(<<"Unknown command">>))

(***************************************************************************)
(* The store task run_database (main.rs 203-218).                          *)
(***************************************************************************)
NoRecord == [some |-> FALSE, value |-> <<>>, expiry |-> NoExpiry]
Record(value, expiry) == [some |-> TRUE, value |-> value, expiry |-> expiry]

\* mutant: a key that is missing is served the record of another key
DbLookupAnyKey(map, key) ==
    IF key \in DOMAIN map THEN map[key]
    ELSE IF DOMAIN map # {} THEN map[CHOOSE k \in DOMAIN map : TRUE]
    ELSE NoRecord

\* db.get(&key).cloned()
DbLookup(map, key) == IF key \in DOMAIN map THEN map[key] ELSE NoRecord

\* mutant: a SET without expiry keeps the expiry of the record it replaces
DbInsertKeepingExpiry(map, key, value, expiry) ==
    [k \in DOMAIN map \cup {key} |->
        IF k = key
        THEN Record(value, IF ~expiry.some /\ key \in DOMAIN map
                           THEN map[key].expiry ELSE expiry)
        ELSE map[k]]

\* mutant: db.entry(key).or_insert((value, expiry)), which keeps an old record
DbInsertIfAbsent(map, key, value, expiry) ==
    [k \in DOMAIN map \cup {key} |->
        IF k = key /\ key \notin DOMAIN map THEN Record(value, expiry)
        ELSE map[k]]

\* mutant: the value and the expiry are written separately, and the expiry
\* of an existing record is left behind
DbInsertTorn(map, key, value, expiry) ==
    [k \in DOMAIN map \cup {key} |->
        IF k = key
        THEN Record(value, IF key \in DOMAIN map THEN map[key].expiry
                           ELSE expiry)
        ELSE map[k]]

\* mutant: the map is rebuilt on every Set, losing the other keys
DbInsertAlone(map, key, value, expiry) ==
    [k \in {key} |-> Record(value, expiry)]

\* mutant: the arguments are mixed up, the record goes under the value
DbInsertUnderValue(map, key, value, expiry) ==
    [k \in DOMAIN map \cup {value} |->
        IF k = value THEN Record(value, expiry) ELSE map[k]]

\* db.insert(key, (value, expiry))
DbInsert(map, key, value, expiry) ==
    [k \in DOMAIN map \cup {key} |->
        IF k = key THEN Record(value, expiry) ELSE map[k]]

\* mutant: the record is gone at its expiry boundary already
ExpiredAtBoundary(now, exp) == now >= exp

\* mutant: the comparison is inverted
ExpiredUntilExpiry(now, exp) == now < exp

\* the expiry test of the "get" arm: Instant::now() > exp
Expired(now, exp) == now > exp

\* the reply the "get" arm builds from the store's answer (main.rs 96-109)
GetReply(answer, now) ==
    IF answer.some
    THEN IF answer.expiry.some
         THEN IF Expired(now, answer.expiry.at) THEN NullBulk
              ELSE BulkString(answer.value)
         ELSE BulkString(answer.value)
    ELSE NullBulk

\* mutant: the operation sent last is served first
DequeueNewest(q) == q[Len(q)]

\* async_channel's recv(): the operation sent first
Dequeue(q) == Head(q)

(***************************************************************************)
(* The requests the clients of the model send: each is one chunk of bytes  *)
(* that a read returns.                                                    *)
(***************************************************************************)
\* a request as a client encodes it: an Array of present bulk strings
Request(args) == Encode(Array([i \in 1..Len(args) |-> BulkString(args[i])]))

Keys == {<<"k">>, <<"j">>}

GET == <<"G", "E", "T">>
SET == <<"S", "E", "T">>
PX == <<"P", "X">>

\* the GET and SET requests of the concurrent model
StoreChunks ==
    { Request(<<GET, <<"k">>>>),
      Request(<<<<"g", "e", "t">>, <<"j">>>>),
      Request(<<SET, <<"k">>, <<"a">>>>),
      Request(<<SET, <<"k">>, <<"b">>, PX, <<"0">>>>),
      Request(<<<<"s", "e", "t">>, <<"j">>, <<"a">>, <<"p", "x">>, <<"1">>>>) }

\* every shape of request and of malformed frame, for a single connection
DispatchChunks ==
    { Request(<<GET, <<"k">>>>),
      Request(<<GET>>),
      Encode(Array(<<BulkString(GET), NullBulk>>)),
      Request(<<SET, <<"k">>, <<"a">>>>),
      Request(<<SET, <<"j">>, <<"a">>>>),
      Request(<<SET, <<"k">>, <<"b">>, PX, <<"1">>>>),
      Request(<<SET, <<"k">>, <<"b">>, <<"p", "X">>, <<"+", "0">>>>),
      Request(<<SET, <<"k">>, <<"b">>, PX, <<"a">>>>),
      Request(<<SET, <<"k">>, <<"b">>, PX, <<"-", "1">>>>),
      Request(<<SET, <<"k">>, <<"b">>, PX>>),
      Request(<<SET, <<"k">>, <<"b">>, <<"E", "X">>, <<"1">>>>),
      Request(<<SET, <<"k">>, <<"b">>, PX, <<"1">>, <<"N", "X">>>>),
      Request(<<SET, <<"k">>, <<"b">>, <<"a">>>>),
      Request(<<SET, <<"k">>>>),
      Encode(Array(<<BulkString(SET), BulkString(<<"k">>), Integer(1)>>)),
      Request(<<<<"P", "I", "N", "G">>>>),
      Request(<<<<"P", "i", "N", "g">>>>),
      Request(<<<<"e", "C", "h", "O">>, <<"b">>>>),
      Request(<<<<"p", "i", "n", "g">>, <<"a">>>>),
      Request(<<<<"E", "C", "H", "O">>, <<"a">>>>),
      Request(<<<<"E", "C", "H", "O">>>>),
      Request(<<<<"F", "O", "O">>>>),
      Encode(Array(<<Integer(1)>>)),
      Encode(Array(<<>>)),
      Encode(SimpleString(<<"a">>)),
      <<"?">>,
      <<"*", "x", CR, LF>>,
      <<"$", "1", CR, LF, "xFF", CR, LF>>,
      <<"+">>,
      <<"$", "5", CR, LF, "a", "b", CR, LF>>,
      <<"*", "1", CR, LF, "$", "3", CR, LF, "G", "E">> }

\* what reads return when the client's requests do not fall one per read:
\* whole requests, two requests in one read, and a request cut in two
PING == <<"P", "I", "N", "G">>
ECHO == <<"E", "C", "H", "O">>
\* where the request cut in two is cut: inside its array header, and inside
\* its first bulk string
CutInHeader == 2
CutInBulk == 10

FramingChunks ==
    { Request(<<PING>>),
      Request(<<ECHO, <<"a">>>>),
      Request(<<GET, <<"k">>>>),
      Request(<<SET, <<"k">>, <<"a">>>>),
      Request(<<PING>>) \o Request(<<ECHO, <<"a">>>>),
      Request(<<SET, <<"k">>, <<"a">>>>) \o Request(<<GET, <<"k">>>>),
      SubSeq(Request(<<ECHO, <<"a">>>>), 1, CutInHeader),
      Advance(Request(<<ECHO, <<"a">>>>), CutInHeader),
      SubSeq(Request(<<ECHO, <<"a">>>>), 1, CutInBulk),
      Advance(Request(<<ECHO, <<"a">>>>), CutInBulk) }

\* what a misbehaving client sends: a frame the decoder panics on, a frame
\* it rejects, an unknown command, and a SET
FaultyChunks ==
    { <<"+">>,
      <<"?">>,
      Request(<<<<"F", "O", "O">>>>),
      Request(<<SET, <<"k">>, <<"a">>>>) }

\* RespValue::try_from on each request of the model, tabulated
TryFrom ==
    [chunk \in StoreChunks \cup DispatchChunks \cup FramingChunks |->
        Decode(chunk)]

(***************************************************************************)
(* History kept beside the program's state: what each store operation was, *)
(* when it was issued, applied and answered.  No action reads it.          *)
(***************************************************************************)
HistEntry(op, px, before) ==
    [conn |-> op.sender, op |-> op.op, key |-> op.key, value |-> op.value,
     expiry |-> op.expiry,
     px |-> px,              \* Set: the PX argument of the request
     invClk |-> clock,       \* the clock when the request was read
     before |-> before,      \* the operations answered before this was read
     pos |-> 0,              \* its place in the store's order (0: not applied)
     got |-> NoRecord,       \* Get: the store's answer
     seen |-> 0,             \* Get: the last Set applied to its key before it
     prev |-> 0,             \* Set: the last Set applied to its key before it
     evalClk |-> 0,          \* the clock when the reply was built
     done |-> FALSE,         \* the reply has been written to the socket
     reply |-> NullBulk]

Answered == {i \in 1..Len(hist) : hist[i].done}
\* the reads that returned bytes so far, over all connections
TotalReqs == nreq["c1"] + nreq["c2"]
NumApplied == Cardinality({i \in 1..Len(hist) : hist[i].pos > 0})

(***************************************************************************)
(* The connection task `process` (main.rs 49-202).  A step of a task runs  *)
(* from one exchange with another task to the next: the code between two   *)
(* such points touches only the task's own locals and its own socket.      *)
(* `wrote` is the outcome of the socket.write_all of the step, if it has   *)
(* one.                                                                    *)
(***************************************************************************)
\* mutant: the end of one task is the end of every task (no task of its own
\* for each connection, or a panic that aborts the process)
EndedForAll(c, why) ==
    /\ pc' = [d \in Conns |-> "ended"]
    /\ cause' = [d \in Conns |-> why]

\* the step ends the loop: a `?` returned an error, or the task panicked
Ended(c, why) ==
    /\ pc' = [pc EXCEPT ![c] = "ended"]
    /\ cause' = [cause EXCEPT ![c] = why]

\* mutant: a null reply is never written
WriteAllButNull(c, response, wrote) ==
    IF wrote
    THEN /\ out' = [out EXCEPT ![c] =
                        IF response = NullBulk THEN @
                        ELSE Append(@, Encode(response))]
         /\ pc' = [pc EXCEPT ![c] = "read"]
         /\ UNCHANGED cause
    ELSE /\ pc' = [pc EXCEPT ![c] = "ended"]
         /\ cause' = [cause EXCEPT ![c] = "write_error"]
         /\ UNCHANGED out

\* mutant: the connection is closed once an Error reply is written
WriteAllClosingOnError(c, response, wrote) ==
    IF wrote
    THEN /\ out' = [out EXCEPT ![c] = Append(@, Encode(response))]
         /\ pc' = [pc EXCEPT ![c] =
                       IF response.t = "Error" THEN "ended" ELSE "read"]
         /\ cause' = [cause EXCEPT ![c] =
                       IF response.t = "Error" THEN "error_reply" ELSE @]
    ELSE /\ pc' = [pc EXCEPT ![c] = "ended"]
         /\ cause' = [cause EXCEPT ![c] = "write_error"]
         /\ UNCHANGED out

\* socket.write_all(&Bytes::from(response)).await?, then back to the read
WriteAll(c, response, wrote) ==
    IF wrote
    THEN /\ out' = [out EXCEPT ![c] = Append(@, Encode(response))]
         /\ pc' = [pc EXCEPT ![c] = "read"]
         /\ UNCHANGED cause
    ELSE /\ Ended(c, "write_error")
         /\ UNCHANGED out

\* read_buf returned `chunk` (bytes_read > 0): decode it, dispatch it, and
\* either write the reply or send the DbOperation with a fresh oneshot
\* channel (main.rs 56-95, 112-141, 147-163, 169-200)
Recv(c, chunk, wrote) ==
    /\ pc[c] = "read"
    /\ TotalReqs < MaxReqs
    /\ chunk # <<>>
    /\ nreq' = [nreq EXCEPT ![c] = @ + 1]
    /\ inp' = [inp EXCEPT ![c] = Append(@, chunk)]
    /\ LET result == TryFrom[chunk] IN
       IF result.tag = "Panic"
       THEN /\ Ended(c, "panic")
            /\ UNCHANGED <<req, out, chan, oneshot, hist, cur>>
       ELSE LET d == Dispatch(result, c, clock) IN
            IF d.kind = "reply"
            THEN /\ WriteAll(c, d.reply, wrote)
                 /\ UNCHANGED <<req, chan, oneshot, hist, cur>>
            ELSE /\ req' = [req EXCEPT ![c] = d.op]
                 /\ chan' = Append(chan, d.op)
                 /\ oneshot' = [oneshot EXCEPT ![c] =
                                    [full |-> FALSE, answer |-> NoRecord]]
                 /\ pc' = [pc EXCEPT ![c] = "await"]
                 /\ hist' = Append(hist, HistEntry(d.op, d.px, Answered))
                 /\ cur' = [cur EXCEPT ![c] = Len(hist) + 1]
                 /\ UNCHANGED <<out, cause>>
    /\ UNCHANGED <<clock, db, lastSet>>
    /\ UNCHANGED codecVars

\* read_buf returned 0 bytes: the peer closed (main.rs 57-59)
PeerClosed(c) ==
    /\ pc[c] = "read"
    /\ Ended(c, "peer_closed")
    /\ UNCHANGED <<clock, nreq, req, inp, out, chan, oneshot, db, hist, cur,
                   lastSet>>
    /\ UNCHANGED codecVars

\* read_buf failed: the `?` of main.rs 56 returns the error
ReadFailed(c) ==
    /\ pc[c] = "read"
    /\ Ended(c, "read_error")
    /\ UNCHANGED <<clock, nreq, req, inp, out, chan, oneshot, db, hist, cur,
                   lastSet>>
    /\ UNCHANGED codecVars

\* response_receiver.await returned: build the reply and write it
\* (main.rs 96-111 for Get, 142-145 and 164-167 for Set)
Receive(c, wrote) ==
    /\ pc[c] = "await"
    /\ oneshot[c].full
    /\ LET response == IF req[c].op = "Get"
                       THEN GetReply(oneshot[c].answer, clock)
                       ELSE SimpleString(<<"O", "K">>)
       IN  /\ WriteAll(c, response, wrote)
           /\ hist' = [hist EXCEPT ![cur[c]].evalClk = clock,
                                   ![cur[c]].reply = response,
                                   ![cur[c]].done = wrote]
    /\ cur' = [cur EXCEPT ![c] = 0]
    /\ req' = [req EXCEPT ![c] = NoOperation]
    /\ UNCHANGED <<clock, nreq, inp, chan, oneshot, db, lastSet>>
    /\ UNCHANGED codecVars

(***************************************************************************)
(* One turn of the loop of run_database (main.rs 206-216).                 *)
(***************************************************************************)
DbStep ==
    /\ chan # <<>>
    /\ LET operation == Dequeue(chan)
           h == cur[operation.sender]
       IN  /\ chan' = SelectSeq(chan, LAMBDA o : o # operation)
           /\ IF operation.op = "Get"
              THEN /\ oneshot' = [oneshot EXCEPT ![operation.sender] =
                          [full |-> TRUE, answer |-> DbLookup(db, operation.key)]]
                   /\ hist' = [hist EXCEPT
                          ![h].pos = NumApplied + 1,
                          ![h].got = DbLookup(db, operation.key),
                          ![h].seen = lastSet[operation.key]]
                   /\ UNCHANGED <<db, lastSet>>
              ELSE /\ db' = DbInsert(db, operation.key, operation.value,
                                     operation.expiry)
                   /\ oneshot' = [oneshot EXCEPT ![operation.sender] =
                          [full |-> TRUE, answer |-> NoRecord]]
                   /\ hist' = [hist EXCEPT
                          ![h].pos = NumApplied + 1,
                          ![h].prev = lastSet[operation.key]]
                   /\ lastSet' = [lastSet EXCEPT ![operation.key] = h]
    /\ UNCHANGED <<clock, pc, nreq, req, inp, out, cause, cur>>
    /\ UNCHANGED codecVars

\* time passes
Tick ==
    /\ clock < MaxClock
    /\ clock' = clock + 1
    /\ UNCHANGED <<pc, nreq, req, inp, out, cause, chan, oneshot, db, hist,
                   cur, lastSet>>
    /\ UNCHANGED codecVars

(***************************************************************************)
(* The server: Init is the state after `main` has spawned run_database and *)
(* accepted the connections.                                               *)
(***************************************************************************)
ServerInit ==
    /\ clock = 0
    /\ pc = [c \in Conns |-> "read"]
    /\ nreq = [c \in Conns |-> 0]
    /\ req = [c \in Conns |-> NoOperation]
    /\ inp = [c \in Conns |-> <<>>]
    /\ out = [c \in Conns |-> <<>>]
    /\ cause = [c \in Conns |-> "none"]
    /\ chan = <<>>
    /\ oneshot = [c \in Conns |-> [full |-> FALSE, answer |-> NoRecord]]
    /\ db = [k \in {} |-> NoRecord]
    /\ hist = <<>>
    /\ cur = [c \in Conns |-> 0]
    /\ lastSet = [k \in Keys |-> 0]

CodecIdle ==
    /\ cmsg = NullBulk
    /\ cbuf = <<>>
    /\ cres = Err("")
    /\ cphase = "off"

Init == ServerInit /\ CodecIdle

ServerNext(active, chunks) ==
    \/ \E c \in active, chunk \in chunks, wrote \in BOOLEAN :
            Recv(c, chunk, wrote)
    \/ \E c \in active : PeerClosed(c)
    \/ \E c \in active : ReadFailed(c)
    \/ \E c \in active, wrote \in BOOLEAN : Receive(c, wrote)
    \/ DbStep
    \/ Tick

\* several connections issuing GET and SET concurrently
Next == ServerNext(Conns, StoreChunks)

Spec == Init /\ [][Next]_vars

\* the scheduling of the tokio runtime: a task that can run does run.  The
\* store task is woken when the channel holds an operation, a connection
\* task when its oneshot channel holds the answer.  What the sockets and the
\* clients do is not the server's to decide: no fairness for the reads.
Fairness ==
    /\ WF_vars(DbStep)
    /\ \A c \in Conns : WF_vars(\E wrote \in BOOLEAN : Receive(c, wrote))

LiveSpec == Init /\ [][Next]_vars /\ Fairness

\* one connection sending every shape of request
DispatchNext == ServerNext({"c1"}, DispatchChunks)

DispatchSpec == Init /\ [][DispatchNext]_vars

\* a misbehaving connection beside a connection issuing GET and SET
IsolationNext ==
    \/ \E chunk \in FaultyChunks, wrote \in BOOLEAN : Recv("c1", chunk, wrote)
    \/ \E chunk \in StoreChunks, wrote \in BOOLEAN : Recv("c2", chunk, wrote)
    \/ \E c \in Conns : PeerClosed(c)
    \/ \E c \in Conns : ReadFailed(c)
    \/ \E c \in Conns, wrote \in BOOLEAN : Receive(c, wrote)
    \/ DbStep
    \/ Tick

IsolationSpec == Init /\ [][IsolationNext]_vars

\* one connection whose reads do not fall on the boundaries of the requests
FramingNext == ServerNext({"c1"}, FramingChunks)

FramingSpec == Init /\ [][FramingNext]_vars

(***************************************************************************)
(* The codec on its own: a RespValue is encoded, the bytes are possibly    *)
(* damaged once (cut short, or one byte replaced), and decoded; or a short *)
(* raw byte string is decoded.                                             *)
(***************************************************************************)
SeqsUpTo(S, n) == UNION {[1..k -> S] : k \in 0..n}

Leaves ==
    { SimpleString(<<>>), SimpleString(<<"a">>), Error(<<"e">>),
      Integer(0), Integer(-12),
      BulkString(<<>>), BulkString(<<"a", CR>>), NullBulk }

\* arrays of leaves, and arrays that nest arrays
FlatArrays == {Array(a) : a \in SeqsUpTo(Leaves, MaxArrayLen)}
Inner ==
    { BulkString(<<"a">>), Integer(7), Array(<<>>),
      Array(<<SimpleString(<<"a">>)>>), Array(<<BulkString(<<"a">>)>>) }
NestedArrays == {Array(a) : a \in SeqsUpTo(Inner, MaxArrayLen)}

Messages == Leaves \cup FlatArrays \cup NestedArrays

RawBytes == {"+", "-", ":", "$", "*", CR, LF, "1", "a", "xFF"}
RawInputs == SeqsUpTo(RawBytes, MaxRawLen)
EditBytes == {"x", "9", "-", CR, "xFF"}

CodecInit ==
    /\ ServerInit
    /\ cres = Err("")
    /\ \/ cphase = "msg" /\ cmsg \in Messages /\ cbuf = <<>>
       \/ cphase = "raw" /\ cmsg = NullBulk /\ cbuf \in RawInputs

\* Bytes::from(value)
CodecEncode ==
    /\ cphase = "msg"
    /\ cbuf' = Encode(cmsg)
    /\ cphase' = "encoded"
    /\ UNCHANGED <<cmsg, cres>>
    /\ UNCHANGED serverVars

\* the frame arrives cut short
CodecTruncate(n) ==
    /\ cphase = "encoded"
    /\ n < Len(cbuf)
    /\ cbuf' = SubSeq(cbuf, 1, n)
    /\ cphase' = "edited"
    /\ UNCHANGED <<cmsg, cres>>
    /\ UNCHANGED serverVars

\* the frame arrives with one byte replaced
CodecReplace(i, b) ==
    /\ cphase = "encoded"
    /\ i \in 1..Len(cbuf)
    /\ cbuf[i] # b
    /\ cbuf' = [cbuf EXCEPT ![i] = b]
    /\ cphase' = "edited"
    /\ UNCHANGED <<cmsg, cres>>
    /\ UNCHANGED serverVars

\* RespValue::try_from(bytes)
CodecDecode ==
    /\ cphase \in {"encoded", "edited", "raw"}
    /\ cres' = Decode(cbuf)
    /\ cphase' = "decoded"
    /\ UNCHANGED <<cmsg, cbuf>>
    /\ UNCHANGED serverVars

CodecNext ==
    \/ CodecEncode
    \/ \E n \in 0..Len(cbuf) : CodecTruncate(n)
    \/ \E i \in 1..Len(cbuf), b \in EditBytes : CodecReplace(i, b)
    \/ CodecDecode

CodecSpec == CodecInit /\ [][CodecNext]_vars

(***************************************************************************)
(* Properties.                                                             *)
(***************************************************************************)
Ops == 1..Len(hist)
Gets == {i \in Ops : hist[i].op = "Get"}
Sets == {i \in Ops : hist[i].op = "Set"}
\* the operations whose reply has been written to the client
AnsweredGets == {g \in Gets : hist[g].done}
\* two operations neither of which was answered before the other was issued
Concurrent(i, j) == i \notin hist[j].before /\ j \notin hist[i].before

(***************************************************************************)
(* Linearizability of the history.  A linearization is a sequence `order`  *)
(* of the answered operations, and of any of the SETs not answered yet,    *)
(* with an instant for each of them, such that                             *)
(*   - an operation answered before another was issued comes first;        *)
(*   - the instants do not decrease along the sequence, and each lies      *)
(*     between the clock when the operation was issued and the clock when  *)
(*     it was answered;                                                    *)
(*   - each GET replies the value of the latest SET on its key before it   *)
(*     in the sequence if the GET's instant is not past that record's      *)
(*     expiry, and the null bulk string otherwise.                         *)
(***************************************************************************)
Max(a, b) == IF a > b THEN a ELSE b
Min(a, b) == IF a < b THEN a ELSE b

Orders(S) ==
    {f \in [1..Cardinality(S) -> S] :
        \A i, j \in 1..Cardinality(S) : i # j => f[i] # f[j]}

RealTimeOrder(order) ==
    \A i, j \in DOMAIN order : i < j => order[j] \notin hist[order[i]].before

\* where in `order`, before place i, the latest SET on the key of order[i]
\* stands (0: nowhere)
LatestSetBefore(order, i) ==
    LET cands == {j \in 1..(i - 1) :
                    /\ hist[order[j]].op = "Set"
                    /\ hist[order[j]].key = hist[order[i]].key}
    IN  IF cands = {} THEN 0
        ELSE CHOOSE j \in cands : \A j2 \in cands : j2 <= j

\* the instants at which the operation at place i may take effect, as
\* [ok, lo, hi]
Window(order, i) ==
    LET o == hist[order[i]]
        lo == o.invClk
        hi == IF o.done THEN o.evalClk ELSE MaxClock
        j == LatestSetBefore(order, i)
    IN  IF o.op = "Set" THEN [ok |-> TRUE, lo |-> lo, hi |-> hi]
        ELSE IF j = 0 THEN [ok |-> o.reply = NullBulk, lo |-> lo, hi |-> hi]
        ELSE LET s == hist[order[j]] IN
             IF ~s.expiry.some
             THEN [ok |-> o.reply = BulkString(s.value), lo |-> lo, hi |-> hi]
             ELSE IF o.reply = BulkString(s.value)
             THEN [ok |-> TRUE, lo |-> lo, hi |-> Min(hi, s.expiry.at)]
             ELSE [ok |-> o.reply = NullBulk,
                   lo |-> Max(lo, s.expiry.at + 1), hi |-> hi]

\* instants can be given to the places i.. of `order`, none before `t`
RECURSIVE Timed(_, _, _)
Timed(order, i, t) ==
    IF i > Len(order) THEN TRUE
    ELSE LET w == Window(order, i) IN
         /\ w.ok
         /\ Max(t, w.lo) <= w.hi
         /\ Timed(order, i + 1, Max(t, w.lo))

\* C1: the history of GET and SET has a linearization.
Linearizable ==
    \E pending \in SUBSET {s \in Sets : ~hist[s].done} :
        \E order \in Orders({i \in Ops : hist[i].done} \cup pending) :
            RealTimeOrder(order) /\ Timed(order, 1, 0)

\* C2: a GET that reads the record of a SET k v PX ms (the last SET applied
\* to k when the store served the GET) replies v when the clock reading of
\* the GET is at most the clock reading of the SET plus ms, and the null bulk
\* string when it is strictly past it.
ExpiryComparedAtReadTime ==
    \A g \in AnsweredGets :
        LET s == hist[g].seen IN
        (s # 0 /\ hist[s].px.given /\ hist[s].px.ok) =>
            hist[g].reply =
                IF hist[g].evalClk > hist[s].invClk + hist[s].px.n
                THEN NullBulk
                ELSE BulkString(hist[s].value)

\* one SET with PX was read twice: at its expiry exactly (the value) and
\* past it (null)
ExpiryBoundaryAndPastSeen ==
    \E g1 \in AnsweredGets, g2 \in AnsweredGets :
        /\ hist[g1].seen # 0
        /\ hist[g1].seen = hist[g2].seen
        /\ hist[hist[g1].seen].px.ok
        /\ hist[g1].evalClk = hist[hist[g1].seen].expiry.at
        /\ hist[g1].reply = BulkString(hist[hist[g1].seen].value)
        /\ hist[g2].evalClk > hist[hist[g2].seen].expiry.at
        /\ hist[g2].reply = NullBulk

\* C3: when the last SET applied to a key carried no PX, the key's record is
\* (its value, no expiry), and every GET served from it replies its value
\* whatever the clock reads.
SetWithoutPxClearsExpiry ==
    /\ \A k \in Keys :
        (lastSet[k] # 0 /\ ~hist[lastSet[k]].px.given) =>
            DbLookup(db, k) = Record(hist[lastSet[k]].value, NoExpiry)
    /\ \A g \in AnsweredGets :
        (hist[g].seen # 0 /\ ~hist[hist[g].seen].px.given) =>
            hist[g].reply = BulkString(hist[hist[g].seen].value)

\* a SET without PX replaced a record with an expiry, and a GET issued past
\* that expiry replied the new value
ReadPastClearedExpiry ==
    \E g \in AnsweredGets :
        LET s == hist[g].seen IN
        /\ s # 0
        /\ ~hist[s].px.given
        /\ hist[s].prev # 0
        /\ hist[hist[s].prev].expiry.some
        /\ hist[g].invClk > hist[hist[s].prev].expiry.at
        /\ hist[g].reply = BulkString(hist[s].value)

\* C4: a GET k issued after a SET k v without PX was answered OK replies v,
\* unless the store applied another SET on k after that SET and before the
\* GET.
NoSetBetween(s, g) ==
    \A t \in Sets \ {s} :
        hist[t].key = hist[s].key =>
            ~(hist[t].pos > hist[s].pos /\ hist[t].pos < hist[g].pos)

ReadAfterAnsweredSet ==
    \A g \in AnsweredGets, s \in Sets :
        (/\ hist[s].key = hist[g].key
         /\ ~hist[s].px.given
         /\ s \in hist[g].before
         /\ NoSetBetween(s, g)) =>
            hist[g].reply = BulkString(hist[s].value)

\* a GET on one connection replied the value of a SET answered on the other
\* connection, which had replaced an earlier record of the key
ReadOtherConnectionsSet ==
    \E g \in AnsweredGets, s \in Sets :
        /\ hist[s].key = hist[g].key
        /\ ~hist[s].px.given
        /\ s \in hist[g].before
        /\ hist[s].conn # hist[g].conn
        /\ hist[s].prev # 0
        /\ hist[g].reply = BulkString(hist[s].value)

\* C5: the record stored under a key, the answer waiting in a oneshot
\* channel and the answer every GET was served are each the (value, expiry)
\* pair of one single SET request on that key.
PairOfOneSet(k, record) ==
    \E s \in Sets :
        /\ hist[s].key = k
        /\ hist[s].pos > 0
        /\ record = Record(hist[s].value, hist[s].expiry)

NoTornRecord ==
    /\ \A k \in DOMAIN db : PairOfOneSet(k, db[k])
    /\ \A c \in Conns :
        (req[c].op = "Get" /\ oneshot[c].full /\ oneshot[c].answer.some) =>
            PairOfOneSet(req[c].key, oneshot[c].answer)
    /\ \A g \in Gets : hist[g].got.some => PairOfOneSet(hist[g].key, hist[g].got)

\* two concurrent SETs of different connections, with different values and
\* expiries, were applied to one key, and a GET was served a record after both
ConcurrentSetsThenGet ==
    \E s1 \in Sets, s2 \in Sets, g \in Gets :
        /\ hist[s1].key = hist[s2].key /\ hist[g].key = hist[s1].key
        /\ hist[s1].conn # hist[s2].conn
        /\ Concurrent(s1, s2)
        /\ hist[s1].value # hist[s2].value
        /\ hist[s1].expiry # hist[s2].expiry
        /\ hist[s1].pos > 0 /\ hist[s2].pos > hist[s1].pos
        /\ hist[g].pos > hist[s2].pos
        /\ hist[g].got.some

\* C6: every key holds exactly the record of the last SET applied to it, and
\* no record when no SET was applied to it, whatever was applied to the other
\* keys; every GET was served the record of the last SET applied to its key.
NoLostWrite ==
    /\ \A k \in Keys :
        IF lastSet[k] = 0 THEN k \notin DOMAIN db
        ELSE /\ k \in DOMAIN db
             /\ db[k] = Record(hist[lastSet[k]].value, hist[lastSet[k]].expiry)
    /\ \A g \in Gets :
        hist[g].pos > 0 =>
            hist[g].got = IF hist[g].seen = 0 THEN NoRecord
                          ELSE Record(hist[hist[g].seen].value,
                                      hist[hist[g].seen].expiry)

\* two connections SET two distinct keys concurrently, both records are in
\* the map, and a GET issued afterwards on the key written first replied its
\* value
BothKeysWritten ==
    \E s1 \in Sets, s2 \in Sets, g \in AnsweredGets :
        /\ hist[s1].key # hist[s2].key
        /\ hist[s1].conn # hist[s2].conn
        /\ Concurrent(s1, s2)
        /\ hist[s1].pos > 0 /\ hist[s2].pos > hist[s1].pos
        /\ hist[s1].key \in DOMAIN db /\ hist[s2].key \in DOMAIN db
        /\ hist[g].key = hist[s1].key
        /\ hist[g].pos > hist[s2].pos
        /\ hist[g].reply = BulkString(hist[s1].value)

(***************************************************************************)
(* Properties of the dispatch and of the connection loop.                  *)
(***************************************************************************)
OkReply == Encode(SimpleString(<<"O", "K">>))
IsErrorReply(bytes) == bytes # <<>> /\ bytes[1] = "-"

\* the request is an Array of present bulk strings whose verb is SET
IsSetRequest(result) ==
    /\ result.tag = "Ok"
    /\ result.v.t = "Array"
    /\ result.v.a # <<>>
    /\ \A i \in 1..Len(result.v.a) : IsBulkAt(result.v.a, i - 1)
    /\ ToAsciiLowercase(result.v.a[1].b) = <<"s", "e", "t">>

\* a non-negative integer in decimal, with or without a plus sign
IsNonNegativeInteger(s) ==
    \/ s # <<>> /\ AllDigits(s)
    \/ Len(s) > 1 /\ s[1] = "+" /\ AllDigits(Tail(s))

\* the shapes of SET the specification accepts: (key, value) and
\* (key, value, PX, ms)
AcceptedSetShape(values) ==
    \/ Len(values) = 3
    \/ /\ Len(values) = 5
       /\ ToAsciiLowercase(values[4].b) = <<"p", "x">>
       /\ IsNonNegativeInteger(values[5].b)

\* C7: a SET request is answered OK when it has one of the two accepted
\* shapes, and with an Error otherwise.
SetArgumentValidation ==
    \A c \in Conns : \A i \in 1..Len(out[c]) :
        LET result == TryFrom[inp[c][i]] IN
        IsSetRequest(result) =>
            IF AcceptedSetShape(result.v.a) THEN out[c][i] = OkReply
            ELSE IsErrorReply(out[c][i])

\* C8: a request that fails to decode is answered with an Error, and a
\* loop that has ended ended on a closed peer or on a transport failure.
LoopEndsOnlyOnTransport ==
    /\ \A c \in Conns : \A i \in 1..Len(out[c]) :
        TryFrom[inp[c][i]].tag = "Err" => IsErrorReply(out[c][i])
    /\ \A c \in Conns :
        pc[c] = "ended" => cause[c] \in {"peer_closed", "read_error", "write_error"}

\* the request of this read goes to the store
IsStoreRequest(chunk) ==
    /\ TryFrom[chunk].tag # "Panic"
    /\ Dispatch(TryFrom[chunk], "c1", 0).kind = "store"

\* the history entry of the k-th request of connection c, a store request
HistOf(c, k) ==
    CHOOSE h \in Ops :
        /\ hist[h].conn = c
        /\ Cardinality({h2 \in 1..h : hist[h2].conn = c})
             = Cardinality({i \in 1..k : IsStoreRequest(inp[c][i])})

\* the reply the k-th request of connection c calls for: the dispatcher's
\* own, or the one built from what the store answered to this request
ReplyFor(c, k) ==
    IF IsStoreRequest(inp[c][k])
    THEN LET h == hist[HistOf(c, k)] IN
         IF h.op = "Get" THEN Encode(GetReply(h.got, h.evalClk)) ELSE OkReply
    ELSE Encode(Dispatch(TryFrom[inp[c][k]], c, 0).reply)

\* C12: a connection has at most one request without its reply, and none
\* while it reads the next; the k-th byte string written answers the k-th
\* request read; the one request left without a reply is the last, when the
\* task ended on it (the write failed, or the decoder panicked).
OneReplyPerRequestInOrder ==
    \A c \in Conns :
        /\ pc[c] = "read" => Len(out[c]) = nreq[c]
        /\ pc[c] = "await" =>
               /\ Len(out[c]) = nreq[c] - 1
               /\ IsStoreRequest(inp[c][nreq[c]])
               /\ cur[c] = HistOf(c, nreq[c])
        /\ pc[c] = "ended" =>
               Len(out[c]) = IF cause[c] \in {"write_error", "panic"}
                             THEN nreq[c] - 1 ELSE nreq[c]
        /\ \A k \in 1..Len(out[c]) : out[c][k] = ReplyFor(c, k)

\* a connection read three requests, one for the dispatcher alone and two
\* for the store, and wrote three different replies
ThreeRepliesInOrder ==
    \E c \in Conns :
        /\ Len(out[c]) = 3
        /\ Cardinality({out[c][k] : k \in 1..3}) = 3
        /\ Cardinality({k \in 1..3 : IsStoreRequest(inp[c][k])}) = 2
        /\ pc[c] = "read"

\* the reply a store operation calls for, given the SETs the store applied
\* before it
CorrectReply(h) ==
    IF h.op = "Set" THEN SimpleString(<<"O", "K">>)
    ELSE IF h.seen = 0 THEN NullBulk
    ELSE GetReply(Record(hist[h.seen].value, hist[h.seen].expiry), h.evalClk)

IsCommandArray(result) ==
    /\ result.tag = "Ok"
    /\ result.v.t = "Array"
    /\ IsBulkAt(result.v.a, 0)

\* the verb of the request, in lower case
Verb(result) == ToAsciiLowercase(result.v.a[1].b)

KnownVerbs ==
    { <<"p", "i", "n", "g">>, <<"e", "c", "h", "o">>, <<"g", "e", "t">>,
      <<"s", "e", "t">> }

IsUnknownVerb(result) == IsCommandArray(result) /\ Verb(result) \notin KnownVerbs

\* the request decodes, and is not a valid command: not an Array, no verb,
\* an unknown verb, or ECHO or GET without its argument
InvalidCommand(result) ==
    /\ result.tag = "Ok"
    /\ \/ ~IsCommandArray(result)
       \/ IsUnknownVerb(result)
       \/ /\ IsCommandArray(result)
          /\ Verb(result) \in {<<"e", "c", "h", "o">>, <<"g", "e", "t">>}
          /\ ~IsBulkAt(result.v.a, 1)

\* PING, ECHO and GET with their argument, and SET in an accepted shape
ValidCommand(result) ==
    /\ IsCommandArray(result)
    /\ \/ Verb(result) = <<"p", "i", "n", "g">>
       \/ /\ Verb(result) \in {<<"e", "c", "h", "o">>, <<"g", "e", "t">>}
          /\ IsBulkAt(result.v.a, 1)
       \/ IsSetRequest(result) /\ AcceptedSetShape(result.v.a)

\* the reply of a valid command, the k-th request of connection c
NormalReply(c, k) ==
    LET result == TryFrom[inp[c][k]] IN
    CASE Verb(result) = <<"p", "i", "n", "g">> ->
           IF IsBulkAt(result.v.a, 1) THEN Encode(BulkString(result.v.a[2].b))
           ELSE Encode(SimpleString(<<"P", "O", "N", "G">>))
      [] Verb(result) = <<"e", "c", "h", "o">> ->
           Encode(BulkString(result.v.a[2].b))
      [] OTHER -> Encode(CorrectReply(hist[HistOf(c, k)]))

Transport == {"peer_closed", "read_error", "write_error"}

\* C14: a request that decodes and is not a valid command is answered with
\* an Error (an unknown verb with Error("Unknown command")); the loop does
\* not end on it unless its socket fails; the valid command read next has
\* its normal reply.
InvalidCommandAnsweredWithError ==
    \A c \in Conns : \A k \in 1..nreq[c] :
        InvalidCommand(TryFrom[inp[c][k]]) =>
            /\ k <= Len(out[c]) => IsErrorReply(out[c][k])
            /\ (k <= Len(out[c]) /\ IsUnknownVerb(TryFrom[inp[c][k]])) =>
                   out[c][k] = Encode(Error(<<"Unknown command">>))
            /\ k > Len(out[c]) => cause[c] = "write_error"
            /\ (k = nreq[c] /\ pc[c] = "ended") => cause[c] \in Transport
            /\ (k < Len(out[c]) /\ ValidCommand(TryFrom[inp[c][k + 1]])) =>
                   out[c][k + 1] = NormalReply(c, k + 1)

\* an unknown verb, then ECHO without argument, were each answered with an
\* Error, and the ECHO a read next replied a
ValidAfterInvalid ==
    \E c \in Conns :
        /\ Len(out[c]) = 3
        /\ IsUnknownVerb(TryFrom[inp[c][1]])
        /\ out[c][1] = Encode(Error(<<"Unknown command">>))
        /\ InvalidCommand(TryFrom[inp[c][2]])
        /\ ~IsUnknownVerb(TryFrom[inp[c][2]])
        /\ IsErrorReply(out[c][2])
        /\ ValidCommand(TryFrom[inp[c][3]])
        /\ out[c][3] = Encode(BulkString(<<"a">>))

\* C15: a GET served when no SET had been applied to its key is answered
\* no record by the store and replies the null bulk string, whatever was
\* applied to the other keys.
GetOfUnwrittenKeyIsNull ==
    \A g \in Gets :
        (hist[g].pos > 0 /\ hist[g].seen = 0) =>
            /\ hist[g].got = NoRecord
            /\ hist[g].reply = NullBulk
            /\ \A k \in 1..Len(out[hist[g].conn]) :
                   (/\ IsStoreRequest(inp[hist[g].conn][k])
                    /\ HistOf(hist[g].conn, k) = g) =>
                       out[hist[g].conn][k] = Encode(NullBulk)

\* a GET on a key never written replied null after a SET was applied to the
\* other key
UnwrittenKeyReadBesideWrittenKey ==
    \E g \in AnsweredGets, s \in Sets :
        /\ hist[g].seen = 0
        /\ hist[s].key # hist[g].key
        /\ hist[s].pos > 0 /\ hist[s].pos < hist[g].pos
        /\ hist[s].key \in DOMAIN db
        /\ hist[g].reply = NullBulk

\* the maps differ at most in the record of `key`
SameButFor(map1, map2, key) ==
    \A k \in (DOMAIN map1 \cup DOMAIN map2) \ {key} :
        k \in DOMAIN map1 /\ k \in DOMAIN map2 /\ map1[k] = map2[k]

\* the step serves the Set that connection c sent for the SET it has read
ServesSetOf(c) ==
    /\ pc[c] = "await"
    /\ req[c].op = "Set"
    /\ chan # <<>> /\ Head(chan) = req[c]
    /\ IsSetRequest(TryFrom[inp[c][nreq[c]]])

\* a step changes the map only to serve a SET, and only at that SET's key;
\* the steps in which a connection reads or writes leave the map as it is
StoreFrame ==
    /\ db' # db =>
          \E c \in Conns : ServesSetOf(c) /\ SameButFor(db, db', req[c].key)
    /\ (inp' # inp \/ out' # out) => db' = db

\* C16: a step changes the map only when it serves the Set of a SET request
\* read by a connection, and then only the record of that SET's key; a step
\* in which a connection reads a request or writes a reply leaves the map as
\* it is; and the requests that sent a Set to the store are exactly those
\* answered OK (PING, ECHO, GET and the requests answered with an Error
\* sent none).
OnlySetChangesTheStore ==
    /\ [][StoreFrame]_vars
    /\ [](\A c \in Conns : \A k \in 1..Len(out[c]) :
             (IsStoreRequest(inp[c][k]) /\ hist[HistOf(c, k)].op = "Set")
                 <=> out[c][k] = OkReply)

\* a connection wrote three replies, an Error among them, and the map holds
\* the records of two keys
TwoKeysSetBesideAnError ==
    \E c \in Conns :
        /\ Len(out[c]) = 3
        /\ \E k \in 1..3 : IsErrorReply(out[c][k])
        /\ Cardinality({k \in 1..3 : out[c][k] = OkReply}) = 2
        /\ Cardinality(DOMAIN db) = 2

\* `s` is `upper` up to the case of each letter (`lower` is `upper` in lower
\* case)
MatchesIgnoringCase(s, upper, lower) ==
    /\ Len(s) = Len(upper)
    /\ \A i \in 1..Len(s) : s[i] = upper[i] \/ s[i] = lower[i]

IsPing(result) ==
    /\ IsCommandArray(result)
    /\ MatchesIgnoringCase(result.v.a[1].b, PING, <<"p", "i", "n", "g">>)

IsEcho(result) ==
    /\ IsCommandArray(result)
    /\ MatchesIgnoringCase(result.v.a[1].b, ECHO, <<"e", "c", "h", "o">>)

\* the bytes of a bulk string reply
BulkReply(b) == <<"$">> \o IntToString(Len(b)) \o <<CR, LF>> \o b \o <<CR, LF>>

\* C17: whatever the case of the verb, PING alone is answered +PONG\r\n,
\* PING with one present bulk string and ECHO with a present bulk string are
\* answered that bulk string.
PingAndEchoReplies ==
    \A c \in Conns : \A k \in 1..Len(out[c]) :
        LET result == TryFrom[inp[c][k]] IN
        /\ (IsPing(result) /\ Len(result.v.a) = 1) =>
               out[c][k] = <<"+", "P", "O", "N", "G", CR, LF>>
        /\ (IsPing(result) /\ Len(result.v.a) = 2 /\ IsBulkAt(result.v.a, 1)) =>
               out[c][k] = BulkReply(result.v.a[2].b)
        /\ (IsEcho(result) /\ IsBulkAt(result.v.a, 1)) =>
               out[c][k] = BulkReply(result.v.a[2].b)

\* PiNg, ping a and eChO b were answered +PONG, a and b
MixedCasePingAndEcho ==
    \E c \in Conns :
        /\ Len(out[c]) = 3
        /\ inp[c][1] = Request(<<<<"P", "i", "N", "g">>>>)
        /\ out[c][1] = <<"+", "P", "O", "N", "G", CR, LF>>
        /\ inp[c][2] = Request(<<<<"p", "i", "n", "g">>, <<"a">>>>)
        /\ out[c][2] = <<"$", "1", CR, LF, "a", CR, LF>>
        /\ inp[c][3] = Request(<<<<"e", "C", "h", "O">>, <<"b">>>>)
        /\ out[c][3] = <<"$", "1", CR, LF, "b", CR, LF>>

\* a connection leaves its await once the store has applied and answered its
\* operation, by writing the reply or on a failed write
LeavesAwaitByReply ==
    \A c \in Conns :
        (pc[c] = "await" /\ pc'[c] # "await") =>
            /\ oneshot[c].full
            /\ hist[cur[c]].pos > 0
            /\ \/ pc'[c] = "read" /\ Len(out'[c]) = Len(out[c]) + 1
               \/ pc'[c] = "ended" /\ cause'[c] = "write_error"

\* C19: the operations are applied in the order they were sent (the order
\* of the history); the store task can always take the next operation of
\* the channel; the connection of every operation sent eventually leaves
\* its await, which it does only once the store has applied and answered the
\* operation, having written the reply or found its socket failed.
EveryOperationAnswered ==
    /\ [](\A i \in Ops : \A j \in Ops :
             (i < j /\ hist[j].pos > 0) =>
                 (hist[i].pos > 0 /\ hist[i].pos < hist[j].pos))
    /\ [](chan # <<>> => ENABLED DbStep)
    /\ [][LeavesAwaitByReply]_vars
    /\ \A c \in Conns : (pc[c] = "await") ~> (pc[c] # "await")

\* two concurrent operations of two connections were both applied and
\* answered, in the order they were sent
TwoQueuedOperationsAnswered ==
    \E i \in Ops, j \in Ops :
        /\ i < j
        /\ hist[i].conn # hist[j].conn
        /\ Concurrent(i, j)
        /\ hist[i].done /\ hist[j].done
        /\ hist[i].pos < hist[j].pos

\* no step takes a record out of the map; the map is left as it is by the
\* step that serves a Get and by the passing of time
ExpiryLeavesTheMap ==
    /\ \A k \in DOMAIN db : k \in DOMAIN db'
    /\ (chan # <<>> /\ Head(chan).op = "Get") => db' = db
    /\ clock' # clock => db' = db

\* C20: records are never removed, by a Get or by time; when a GET served
\* the record of a SET replied null (the record had expired), every GET on
\* the key issued after that reply and served the record of the same SET
\* (no SET was applied to the key in between) replies null.
ExpiredStaysExpired ==
    /\ [][ExpiryLeavesTheMap]_vars
    /\ [](\A g1 \in AnsweredGets : \A g2 \in AnsweredGets :
             (/\ g1 \in hist[g2].before
              /\ hist[g1].seen # 0
              /\ hist[g2].seen = hist[g1].seen
              /\ hist[g1].reply = NullBulk) =>
                 hist[g2].reply = NullBulk)

\* a GET replied null on an expired record, a GET issued afterwards on the
\* same record replied null, and the record is still in the map
ExpiredRecordReadTwice ==
    \E g1 \in AnsweredGets, g2 \in AnsweredGets :
        /\ g1 \in hist[g2].before
        /\ hist[g1].seen # 0
        /\ hist[g2].seen = hist[g1].seen
        /\ hist[g1].reply = NullBulk
        /\ hist[g2].reply = NullBulk
        /\ hist[g1].key \in DOMAIN db
        /\ db[hist[g1].key] =
               Record(hist[hist[g1].seen].value, hist[hist[g1].seen].expiry)
        /\ db[hist[g1].key].expiry.some
        /\ clock > db[hist[g1].key].expiry.at

(***************************************************************************)
(* Framing.  The stream of a connection is the concatenation of what its   *)
(* reads returned; a frame is a prefix of the stream that is the encoding  *)
(* of the RespValue it decodes to.                                         *)
(***************************************************************************)
RECURSIVE Concat(_)
Concat(chunks) ==
    IF chunks = <<>> THEN <<>> ELSE Head(chunks) \o Concat(Tail(chunks))

Stream(c) == Concat(inp[c])

IsFrame(bytes) ==
    /\ Decode(bytes).tag = "Ok"
    /\ Encode(Decode(bytes).v) = bytes

\* the length of the first complete frame of `bytes` (0: none yet)
FrameLen(bytes) ==
    LET lens == {n \in 1..Len(bytes) : IsFrame(SubSeq(bytes, 1, n))} IN
    IF lens = {} THEN 0 ELSE CHOOSE n \in lens : \A m \in lens : n <= m

\* the complete frames of `bytes`, in order
RECURSIVE Frames(_)
Frames(bytes) ==
    IF FrameLen(bytes) = 0 THEN <<>>
    ELSE <<SubSeq(bytes, 1, FrameLen(bytes))>>
             \o Frames(Advance(bytes, FrameLen(bytes)))

\* the frame is answered without the store
AnsweredByDispatch(frame) == Dispatch(Decode(frame), "c1", 0).kind = "reply"

\* C11: a connection that waits for more bytes has written one reply for
\* each complete frame of its stream, however the stream was cut into reads,
\* and the k-th reply is the reply of the k-th frame (for the frames answered
\* without the store).
FramingIndependentOfReads ==
    \A c \in Conns :
        LET frames == Frames(Stream(c)) IN
        /\ pc[c] = "read" => Len(out[c]) = Len(frames)
        /\ \A k \in 1..Min(Len(out[c]), Len(frames)) :
               AnsweredByDispatch(frames[k]) =>
                   out[c][k] = Encode(Dispatch(Decode(frames[k]), c, 0).reply)

(***************************************************************************)
(* Properties of the codec.                                                *)
(***************************************************************************)
\* C9: decode returns a RespValue or a parse error on every input.
DecodeIsTotal == cphase = "decoded" => cres.tag \in {"Ok", "Err"}

\* C10: decoding the encoding of a RespValue yields that RespValue.
RoundTrip == (cphase = "decoded" /\ cbuf = Encode(cmsg)) => cres = Ok(cmsg)

\* C18: decoding the encoding of an Array of N elements yields an Array of N
\* elements; the i-th element decoded is the i-th element encoded, and the
\* bytes skipped for it (the length of its re-encoding) are the bytes it
\* occupied in the input.
ArrayByteAccounting ==
    (cphase = "decoded" /\ cmsg.t = "Array" /\ cbuf = Encode(cmsg)) =>
        /\ cres.tag = "Ok"
        /\ cres.v.t = "Array"
        /\ Len(cres.v.a) = Len(cmsg.a)
        /\ \A i \in 1..Len(cmsg.a) :
               /\ Len(Encode(cres.v.a[i])) = Len(Encode(cmsg.a[i]))
               /\ cres.v.a[i] = cmsg.a[i]

=============================================================================
